---- MODULE Spec2Model ----
(***************************************************************************)
(* A model of the Secret Santa assignment program: SecretSantaModel        *)
(* (load_employees_from_csv, load_last_year_assignments,                   *)
(* generate_assignments, run) and CSVService (read_csv, write_csv).        *)
(*                                                                         *)
(* Emails are the numbers 1..MaxN; 0 stands for a missing or blank field   *)
(* (None or "" in the program, both falsy).  The name of the employee with *)
(* email e is 10 + e, so that a name looked up through the wrong email is  *)
(* a different value.                                                      *)
(***************************************************************************)
EXTENDS Integers, Sequences, FiniteSets, TLC

\* Largest number of participants, and the number of distinct emails.
MaxN == 3
\* Largest number of participants when single attempts are explored.
MaxAttemptN == 4
\* Largest number of participants when exhaustion is explored.
MaxExhaustN == 3
\* Largest number of data rows of an employee file.
MaxFileRows == 4
\* Largest number of data rows of a last year's assignment file.
MaxPriorFileRows == 1
\* max_attempts of generate_assignments.
MaxAttempts == 100

\* A missing or blank field.
Blank == 0
Emails == 1..MaxN
\* The name that goes with an email.
NameOf(e) == 10 + e

VARIABLES
    employees,              \* self.employees: rows of the employee table
    last_year_assignments,  \* self.last_year_assignments: rows of last year's table
    result,                 \* self.result: rows of this year's assignment
    pc,                     \* where the call in progress stands
    attempt,                \* number of shuffles generate_assignments has drawn
    receivers,              \* the local receivers of generate_assignments
    valid_assignment,       \* the local valid_assignment of generate_assignments
    names,                  \* the local names of generate_assignments
    last_year,              \* the local last_year of generate_assignments
    error,                  \* the exception raised, NoError when none
    saved,                  \* the data handed to each call of CSVService.write_csv
    employee_file,          \* the file at the employee path typed into run
    previous_file           \* the file at the last year's path typed into run

vars == <<employees, last_year_assignments, result, pc, attempt, receivers,
          valid_assignment, names, last_year, error, saved, employee_file,
          previous_file>>

NoError == [kind |-> "none", row |-> 0]
\* The prompt not answered yet, and the prompt answered with no path.
Unset == [status |-> "unset", rows |-> <<>>]
NoFile == [status |-> "none", rows |-> <<>>]
Raise(k, i) == [kind |-> k, row |-> i]

(***************************************************************************)
(* generate_assignments: the locals computed before the retry loop.        *)
(***************************************************************************)

\* names = [e['Employee_EmailID'] for e in employees]
Names(emps) == [i \in 1..Len(emps) |-> emps[i].Employee_EmailID]

\* dict.get: None (Blank) for a key the dict does not hold.
Get(map, key) == IF key \in DOMAIN map THEN map[key] ELSE Blank

\* BuildLastYear with the first row of a giver kept instead of the last.
RECURSIVE BuildLastYearKeepFirst(_)
BuildLastYearKeepFirst(rows) ==
    IF rows = <<>> THEN <<>>
    ELSE LET init == BuildLastYearKeepFirst(SubSeq(rows, 1, Len(rows) - 1))
             row == rows[Len(rows)]
             giver == row.Employee_EmailID
             child == row.Secret_Child_EmailID
         IN  IF giver # Blank /\ child # Blank /\ giver \notin DOMAIN init
             THEN [k \in DOMAIN init \cup {giver} |->
                      IF k = giver THEN child ELSE init[k]]
             ELSE init

\* The dict last_year built from the rows: a row with a falsy giver or child is
\* skipped, a later row of the same giver overwrites an earlier one.
RECURSIVE BuildLastYear(_)
BuildLastYear(rows) ==
    IF rows = <<>> THEN <<>>
    ELSE LET init == BuildLastYear(SubSeq(rows, 1, Len(rows) - 1))
             row == rows[Len(rows)]
             giver == row.Employee_EmailID
             child == row.Secret_Child_EmailID
         IN  IF giver # Blank /\ child # Blank
             THEN [k \in DOMAIN init \cup {giver} |->
                      IF k = giver THEN child ELSE init[k]]
             ELSE init

\* email_to_emp: the last row of each email.
EmailToEmp(emps, email) ==
    emps[CHOOSE i \in 1..Len(emps) :
            /\ emps[i].Employee_EmailID = email
            /\ \A k \in (i + 1)..Len(emps) : emps[k].Employee_EmailID # email]

(***************************************************************************)
(* One attempt of the retry loop, as functions of the shuffled receivers.  *)
(* Python's indices 0..n-1 are 1..n here.                                  *)
(***************************************************************************)

\* Swap as the single assignment receivers[i] = receivers[j].
SwapCopies(r, i, j) == [r EXCEPT ![i] = r[j]]

\* receivers[i], receivers[j] = receivers[j], receivers[i]
Swap(r, i, j) == [r EXCEPT ![i] = r[j], ![j] = r[i]]

\* NextIndex without the wrap to the first index.
NextIndexNoWrap(i, n) == IF i = n THEN i ELSE i + 1

\* j = (i + 1) % n, in 1-based indices.
NextIndex(i, n) == (i % n) + 1

\* SelfRepairFrom leaving the loop after its first swap.
SelfRepairFromBreak(nm, r, i) ==
    LET selfs == {k \in i..Len(nm) : nm[k] = r[k]}
    IN  IF selfs = {} THEN r
        ELSE LET k == CHOOSE k \in selfs : \A m \in selfs : k <= m
             IN  Swap(r, k, NextIndex(k, Len(nm)))

\* Step 1 from index i on: a self-assigned index swaps with its successor.
RECURSIVE SelfRepairFrom(_, _, _)
SelfRepairFrom(nm, r, i) ==
    IF i > Len(nm) THEN r
    ELSE IF nm[i] = r[i]
         THEN SelfRepairFrom(nm, Swap(r, i, NextIndex(i, Len(nm))), i + 1)
         ELSE SelfRepairFrom(nm, r, i + 1)

SelfRepairPass(nm, r) == SelfRepairFrom(nm, r, 1)

\* CanSwap without the check of j's last year receiver.
CanSwapUnchecked(nm, ly, r, i, j) ==
    /\ nm[j] # r[j]
    /\ r[j] # nm[i]
    /\ r[i] # nm[j]
    /\ Get(ly, nm[i]) # r[j]

\* The condition under which index j is a swap partner of index i in step 2.
CanSwap(nm, ly, r, i, j) ==
    /\ nm[j] # r[j]
    /\ r[j] # nm[i]
    /\ r[i] # nm[j]
    /\ Get(ly, nm[j]) # r[i]
    /\ Get(ly, nm[i]) # r[j]

\* Step 2 from index i on: an index holding last year's receiver swaps with the
\* first partner that CanSwap; with no partner the attempt is given up at once.
RECURSIVE PriorRepairFrom(_, _, _, _)
PriorRepairFrom(nm, ly, r, i) ==
    IF i > Len(nm) THEN [receivers |-> r, valid_assignment |-> TRUE]
    ELSE IF Get(ly, nm[i]) = r[i]
         THEN LET partners == {j \in 1..Len(nm) : CanSwap(nm, ly, r, i, j)}
              IN  IF partners = {}
                  THEN [receivers |-> r, valid_assignment |-> FALSE]
                  ELSE LET j == CHOOSE j \in partners : \A k \in partners : j <= k
                       IN  PriorRepairFrom(nm, ly, Swap(r, i, j), i + 1)
         ELSE PriorRepairFrom(nm, ly, r, i + 1)

PriorRepairPass(nm, ly, r) == PriorRepairFrom(nm, ly, r, 1)

\* Index i violates a constraint: self-assigned, or given last year's receiver.
Violates(nm, ly, r, i) == nm[i] = r[i] \/ Get(ly, nm[i]) = r[i]

\* final_check_pass
FinalCheck(nm, ly, r) == \A i \in 1..Len(nm) : ~Violates(nm, ly, r, i)

\* BuildResult with the child's fields read from giver_data.
BuildResultGiverAsChild(emps, nm, r) ==
    [i \in 1..Len(nm) |->
        [Employee_Name        |-> EmailToEmp(emps, nm[i]).Employee_Name,
         Employee_EmailID     |-> EmailToEmp(emps, nm[i]).Employee_EmailID,
         Secret_Child_Name    |-> EmailToEmp(emps, nm[i]).Employee_Name,
         Secret_Child_EmailID |-> EmailToEmp(emps, nm[i]).Employee_EmailID]]

\* The rows of self.result built from names and receivers.
BuildResult(emps, nm, r) ==
    [i \in 1..Len(nm) |->
        [Employee_Name        |-> EmailToEmp(emps, nm[i]).Employee_Name,
         Employee_EmailID     |-> EmailToEmp(emps, nm[i]).Employee_EmailID,
         Secret_Child_Name    |-> EmailToEmp(emps, r[i]).Employee_Name,
         Secret_Child_EmailID |-> EmailToEmp(emps, r[i]).Employee_EmailID]]

\* The outcomes of random.shuffle(receivers): every rearrangement.
Shuffles(r) == {[i \in 1..Len(r) |-> r[p[i]]] : p \in Permutations(1..Len(r))}


(***************************************************************************)
(* generate_assignments, step by step.                                     *)
(***************************************************************************)

\* Begin with the size check n < 1.
BeginAllowsOne ==
    /\ pc = "call"
    /\ IF Len(employees) < 1
       THEN /\ pc' = "raised"
            /\ error' = Raise("too_few", 0)
            /\ UNCHANGED <<names, last_year, receivers>>
       ELSE /\ pc' = "loop"
            /\ names' = Names(employees)
            /\ last_year' = BuildLastYear(last_year_assignments)
            /\ receivers' = Names(employees)
            /\ UNCHANGED error
    /\ UNCHANGED <<employees, last_year_assignments, result, attempt,
                   valid_assignment, saved, employee_file, previous_file>>

\* Lines 113-133: the size check and the locals.
Begin ==
    /\ pc = "call"
    /\ IF Len(employees) < 2
       THEN /\ pc' = "raised"
            /\ error' = Raise("too_few", 0)
            /\ UNCHANGED <<names, last_year, receivers>>
       ELSE /\ pc' = "loop"
            /\ names' = Names(employees)
            /\ last_year' = BuildLastYear(last_year_assignments)
            /\ receivers' = Names(employees)
            /\ UNCHANGED error
    /\ UNCHANGED <<employees, last_year_assignments, result, attempt,
                   valid_assignment, saved, employee_file, previous_file>>

\* Shuffle with one attempt more than max_attempts.
ShuffleOneMore ==
    /\ pc = "loop"
    /\ IF attempt <= MaxAttempts
       THEN /\ \E s \in Shuffles(receivers) : receivers' = s
            /\ attempt' = attempt + 1
            /\ pc' = "shuffled"
            /\ UNCHANGED error
       ELSE /\ pc' = "raised"
            /\ error' = Raise("exhausted", 0)
            /\ UNCHANGED <<receivers, attempt>>
    /\ UNCHANGED <<employees, last_year_assignments, result, valid_assignment, saved,
                   employee_file, previous_file,
                   names, last_year>>

\* Lines 137-138: the loop goes on and shuffles, or is over and line 194 raises.
Shuffle ==
    /\ pc = "loop"
    /\ IF attempt < MaxAttempts
       THEN /\ \E s \in Shuffles(receivers) : receivers' = s
            /\ attempt' = attempt + 1
            /\ pc' = "shuffled"
            /\ UNCHANGED error
       ELSE /\ pc' = "raised"
            /\ error' = Raise("exhausted", 0)
            /\ UNCHANGED <<receivers, attempt>>
    /\ UNCHANGED <<employees, last_year_assignments, result, valid_assignment, saved,
                   employee_file, previous_file,
                   names, last_year>>

\* Lines 140-144.
SelfRepair ==
    /\ pc = "shuffled"
    /\ receivers' = SelfRepairPass(names, receivers)
    /\ pc' = "selfrepaired"
    /\ UNCHANGED <<employees, last_year_assignments, result, attempt,
                   valid_assignment, error, saved, employee_file, previous_file,
                   names, last_year>>

\* Lines 146-165.
PriorRepair ==
    /\ pc = "selfrepaired"
    /\ LET p == PriorRepairPass(names, last_year, receivers)
       IN  /\ receivers' = p.receivers
           /\ valid_assignment' = p.valid_assignment
    /\ pc' = "priorrepaired"
    /\ UNCHANGED <<employees, last_year_assignments, result, attempt, error, saved,
                   employee_file, previous_file,
                   names, last_year>>

\* Lines 167-191: the final check, then the result and the return, or the next
\* attempt.
Verify ==
    /\ pc = "priorrepaired"
    /\ IF valid_assignment /\ FinalCheck(names, last_year, receivers)
       THEN /\ result' = BuildResult(employees, names, receivers)
            /\ pc' = "returned"
       ELSE /\ pc' = "loop"
            /\ UNCHANGED result
    /\ UNCHANGED <<employees, last_year_assignments, attempt, receivers,
                   valid_assignment, error, saved, employee_file, previous_file,
                   names, last_year>>

(***************************************************************************)
(* The engine called on a model built by the constructor.                  *)
(***************************************************************************)

EmployeeRow(e) == [Employee_Name |-> NameOf(e), Employee_EmailID |-> e]

\* The employee tables handed to the constructor: the first n emails, in order.
\* (The program compares emails for equality only, so which emails they are and
\* in which order does not matter to it; the emails above n are outsiders.)
EmployeeLists == {[i \in 1..n |-> EmployeeRow(i)] : n \in 0..MaxN}

\* A row of last year's table; a blank email comes with a blank name.
PriorRow(g, c) ==
    [Employee_Name        |-> IF g = Blank THEN Blank ELSE NameOf(g),
     Employee_EmailID     |-> g,
     Secret_Child_Name    |-> IF c = Blank THEN Blank ELSE NameOf(c),
     Secret_Child_EmailID |-> c]

\* The rows of last year's table that hold, giver by giver, the map f; a giver
\* f maps to Blank has no row.
RECURSIVE RowsOf(_, _, _)
RowsOf(f, g, top) ==
    IF g > top THEN <<>>
    ELSE IF f[g] = Blank THEN RowsOf(f, g + 1, top)
         ELSE <<PriorRow(g, f[g])>> \o RowsOf(f, g + 1, top)

\* Rows that may come before them: two rows with a blank field, and a row of
\* giver 1 that a later row of giver 1 replaces.
LeadingRows ==
    {<<>>, <<PriorRow(1, Blank), PriorRow(Blank, 2), PriorRow(1, 2)>>}

PriorLists ==
    {lead \o RowsOf(f, 1, MaxN) :
        lead \in LeadingRows, f \in [Emails -> {Blank} \cup Emails]}

\* __init__ with any employees and previous_assignments, then a call of
\* generate_assignments.
Init ==
    /\ employees \in EmployeeLists
    /\ last_year_assignments \in PriorLists
    /\ result = <<>>
    /\ pc = "call"
    /\ attempt = 0
    /\ receivers = <<>>
    /\ valid_assignment = TRUE
    /\ names = <<>>
    /\ last_year = <<>>
    /\ error = NoError
    /\ saved = <<>>
    /\ employee_file = Unset
    /\ previous_file = Unset

Next == Begin \/ Shuffle \/ SelfRepair \/ PriorRepair \/ Verify

Spec == Init /\ [][Next]_vars

(***************************************************************************)
(* The attempts of the retry loop with their count left out: what one      *)
(* attempt does with a shuffle does not depend on how many came before, so *)
(* larger tables can be explored.                                          *)
(***************************************************************************)

AttemptEmployeeLists == {[i \in 1..n |-> EmployeeRow(i)] : n \in 2..MaxAttemptN}

AttemptPriorLists ==
    {RowsOf(f, 1, MaxAttemptN) : f \in [1..MaxAttemptN -> {Blank} \cup 1..MaxAttemptN]}

\* Line 138, whichever attempt it is.
ShuffleAgain ==
    /\ pc = "loop"
    /\ \E s \in Shuffles(receivers) : receivers' = s
    /\ pc' = "shuffled"
    /\ UNCHANGED <<employees, last_year_assignments, result, attempt, valid_assignment,
                   error, saved, employee_file, previous_file,
                   names, last_year>>

\* The call has passed the size check and stands before its first attempt.
InitAttempt ==
    /\ employees \in AttemptEmployeeLists
    /\ last_year_assignments \in AttemptPriorLists
    /\ result = <<>>
    /\ pc = "loop"
    /\ attempt = 0
    /\ names = Names(employees)
    /\ last_year = BuildLastYear(last_year_assignments)
    /\ receivers = Names(employees)
    /\ valid_assignment = TRUE
    /\ error = NoError
    /\ saved = <<>>
    /\ employee_file = Unset
    /\ previous_file = Unset

NextAttempt == ShuffleAgain \/ SelfRepair \/ PriorRepair \/ Verify

SpecAttempt == InitAttempt /\ [][NextAttempt]_vars

(***************************************************************************)
(* CSVService and the two loaders.                                         *)
(***************************************************************************)

\* A path that names no file, a file that cannot be read, or a file with rows.
File(status, rows) == [status |-> status, rows |-> rows]

\* CSVService.read_csv: the exception it raises, NoError when it returns rows.
ReadCsv(file) ==
    IF file.status = "missing" THEN Raise("file_not_found", 0)
    ELSE IF file.status = "unreadable" THEN Raise("read_failed", 0)
    ELSE NoError

\* The loop of load_employees_from_csv from row i on, seen holding the emails
\* of the rows before it: the first failure, with its row number.
RECURSIVE CheckEmployeeRows(_, _, _)
CheckEmployeeRows(data, i, seen) ==
    IF i > Len(data) THEN NoError
    ELSE IF data[i].Employee_Name = Blank THEN Raise("name_missing", i)
    ELSE IF data[i].Employee_EmailID = Blank THEN Raise("email_missing", i)
    ELSE IF data[i].Employee_EmailID \in seen THEN Raise("duplicate_email", i)
    ELSE CheckEmployeeRows(data, i + 1, seen \cup {data[i].Employee_EmailID})

\* LoadEmployeesError with the rows numbered from 0.
LoadEmployeesErrorFromZero(file) ==
    IF ReadCsv(file) # NoError THEN ReadCsv(file)
    ELSE IF file.rows = <<>> THEN Raise("empty_file", 0)
    ELSE IF Len(file.rows) <= 2 THEN Raise("too_few_rows", 0)
    ELSE LET e == CheckEmployeeRows(file.rows, 1, {})
         IN  IF e = NoError THEN e ELSE Raise(e.kind, e.row - 1)

\* load_employees_from_csv: the exception it raises, NoError when it stores
\* the rows.
LoadEmployeesError(file) ==
    IF ReadCsv(file) # NoError THEN ReadCsv(file)
    ELSE IF file.rows = <<>> THEN Raise("empty_file", 0)
    ELSE IF Len(file.rows) <= 2 THEN Raise("too_few_rows", 0)
    ELSE CheckEmployeeRows(file.rows, 1, {})

\* The loop of load_last_year_assignments from row i on.
RECURSIVE CheckPriorRows(_, _)
CheckPriorRows(data, i) ==
    IF i > Len(data) THEN NoError
    ELSE IF data[i].Employee_Name = Blank THEN Raise("prior_name_missing", i)
    ELSE IF data[i].Employee_EmailID = Blank THEN Raise("prior_email_missing", i)
    ELSE IF data[i].Secret_Child_Name = Blank THEN Raise("prior_child_name_missing", i)
    ELSE IF data[i].Secret_Child_EmailID = Blank
         THEN Raise("prior_child_email_missing", i)
    ELSE CheckPriorRows(data, i + 1)

\* load_last_year_assignments: an empty file is stored as no rows, with a
\* warning and no exception.
LoadLastYearError(file) ==
    IF ReadCsv(file) # NoError THEN ReadCsv(file)
    ELSE CheckPriorRows(file.rows, 1)

\* One attempt on the shuffle s: the receivers it returns, <<>> when the
\* attempt is given up.
AttemptOutcome(nm, ly, s) ==
    LET p == PriorRepairPass(nm, ly, SelfRepairPass(nm, s))
    IN  IF p.valid_assignment /\ FinalCheck(nm, ly, p.receivers)
        THEN p.receivers
        ELSE <<>>

\* generate_assignments as one call on at least 2 employees: it returns with
\* the receivers of a shuffle whose attempt passes, and it raises when
\* max_attempts shuffles in a row are given up, which any shuffle that is
\* given up can bring about.
GenerateOutcomes(emps, rows) ==
    LET nm == Names(emps)
        ly == BuildLastYear(rows)
        outcomes == {AttemptOutcome(nm, ly, s) : s \in Shuffles(nm)}
    IN  {[error |-> NoError, result |-> BuildResult(emps, nm, r)] :
            r \in outcomes \ {<<>>}}
        \cup
        {[error |-> Raise("exhausted", 0), result |-> <<>>] :
            r \in outcomes \cap {<<>>}}

(***************************************************************************)
(* SecretSantaModel.run: load, load, generate, save; any exception is      *)
(* printed and ends the run.                                               *)
(***************************************************************************)

\* A row of an employee file: the name blank or filled in, with any email.
FileRow(filled, e) ==
    [Employee_Name |-> IF filled THEN NameOf(e) ELSE Blank, Employee_EmailID |-> e]

EmployeeFiles ==
    {File("missing", <<>>), File("unreadable", <<>>)}
    \cup
    {File("ok", rows) :
        rows \in UNION {[1..n -> {FileRow(b, e) : b \in BOOLEAN, e \in {Blank} \cup Emails}] :
                           n \in 0..MaxFileRows}}

\* A row of a last year's file: each of the four fields blank or filled in.
PriorFileRow(gfilled, g, cfilled, c) ==
    [Employee_Name        |-> IF gfilled THEN NameOf(g) ELSE Blank,
     Employee_EmailID     |-> g,
     Secret_Child_Name    |-> IF cfilled THEN NameOf(c) ELSE Blank,
     Secret_Child_EmailID |-> c]

PriorFiles ==
    {File("missing", <<>>), File("unreadable", <<>>)}
    \cup
    {File("ok", rows) :
        rows \in UNION {[1..n -> {PriorFileRow(gb, g, cb, c) :
                                     gb \in BOOLEAN, g \in {Blank} \cup Emails,
                                     cb \in BOOLEAN, c \in {Blank} \cup Emails}] :
                           n \in 0..MaxPriorFileRows}}

\* Lines 203-204.
RunLoadEmployees ==
    /\ pc = "run"
    /\ \E file \in EmployeeFiles :
          /\ employee_file' = file
          /\ IF LoadEmployeesError(file) = NoError
             THEN /\ employees' = file.rows
                  /\ pc' = "run_employees_loaded"
                  /\ UNCHANGED error
             ELSE /\ error' = LoadEmployeesError(file)
                  /\ pc' = "run_ended"
                  /\ UNCHANGED employees
    /\ UNCHANGED <<last_year_assignments, result, attempt, receivers,
                   valid_assignment, saved, previous_file,
                   names, last_year>>

\* Lines 207-212: no path typed, or the file at the path typed.
RunLoadLastYear ==
    /\ pc = "run_employees_loaded"
    /\ \E file \in {NoFile} \cup PriorFiles :
          /\ previous_file' = file
          /\ IF file = NoFile
             THEN /\ last_year_assignments' = <<>>
                  /\ pc' = "run_previous_loaded"
                  /\ UNCHANGED error
             ELSE IF LoadLastYearError(file) = NoError
             THEN /\ last_year_assignments' = file.rows
                  /\ pc' = "run_previous_loaded"
                  /\ UNCHANGED error
             ELSE /\ error' = LoadLastYearError(file)
                  /\ pc' = "run_ended"
                  /\ UNCHANGED last_year_assignments
    /\ UNCHANGED <<employees, result, attempt, receivers, valid_assignment, saved,
                   employee_file,
                   names, last_year>>

\* RunGenerate with the exception of generate_assignments swallowed.
RunGenerateSwallows ==
    /\ pc = "run_previous_loaded"
    /\ \E o \in GenerateOutcomes(employees, last_year_assignments) :
          IF o.error = NoError
          THEN /\ result' = o.result
               /\ pc' = "run_generated"
          ELSE /\ pc' = "run_generated"
               /\ UNCHANGED result
    /\ UNCHANGED <<employees, last_year_assignments, attempt, receivers, error,
                   valid_assignment, saved, employee_file, previous_file,
                   names, last_year>>

\* Line 215.  The locals of the call are gone when it is over.
RunGenerate ==
    /\ pc = "run_previous_loaded"
    /\ IF Len(employees) < 2
       THEN /\ error' = Raise("too_few", 0)
            /\ pc' = "run_ended"
            /\ UNCHANGED result
       ELSE \E o \in GenerateOutcomes(employees, last_year_assignments) :
               IF o.error = NoError
               THEN /\ result' = o.result
                    /\ pc' = "run_generated"
                    /\ UNCHANGED error
               ELSE /\ error' = o.error
                    /\ pc' = "run_ended"
                    /\ UNCHANGED result
    /\ UNCHANGED <<employees, last_year_assignments, attempt, receivers,
                   valid_assignment, saved, employee_file, previous_file,
                   names, last_year>>

\* Lines 218-226 and CSVService.write_csv: no data raises before the file is
\* opened; opening and writing succeed or fail.
RunSave ==
    /\ pc = "run_generated"
    /\ saved' = Append(saved, result)
    /\ IF result = <<>>
       THEN /\ error' = Raise("empty_data", 0)
            /\ pc' = "run_ended"
       ELSE \E written \in BOOLEAN :
               IF written
               THEN /\ pc' = "run_saved"
                    /\ UNCHANGED error
               ELSE /\ error' = Raise("write_failed", 0)
                    /\ pc' = "run_ended"
    /\ UNCHANGED <<employees, last_year_assignments, result, attempt, receivers,
                   valid_assignment, employee_file, previous_file,
                   names, last_year>>

\* main: SecretSantaModel() with no arguments, then run.
InitRun ==
    /\ employees = <<>>
    /\ last_year_assignments = <<>>
    /\ result = <<>>
    /\ pc = "run"
    /\ attempt = 0
    /\ receivers = <<>>
    /\ valid_assignment = TRUE
    /\ names = <<>>
    /\ last_year = <<>>
    /\ error = NoError
    /\ saved = <<>>
    /\ employee_file = Unset
    /\ previous_file = Unset

NextRun == RunLoadEmployees \/ RunLoadLastYear \/ RunGenerate \/ RunSave

SpecRun == InitRun /\ [][NextRun]_vars

(***************************************************************************)
(* What the properties speak of, stated without the program's operators.   *)
(***************************************************************************)

\* The rows of last year's table that count: giver and child both given.
CountingRows(rows) ==
    {k \in 1..Len(rows) :
        rows[k].Employee_EmailID # Blank /\ rows[k].Secret_Child_EmailID # Blank}

\* The givers of the prior map, and the recipient the map gives each: that of
\* the last counting row of the giver.
PriorGivers(rows) == {rows[k].Employee_EmailID : k \in CountingRows(rows)}

PriorRecipient(rows, g) ==
    LET own == {k \in CountingRows(rows) : rows[k].Employee_EmailID = g}
    IN  rows[CHOOSE k \in own : \A m \in own : m <= k].Secret_Child_EmailID

\* Recipient c is forbidden to giver g.
Forbidden(rows, g, c) ==
    c = g \/ (g \in PriorGivers(rows) /\ PriorRecipient(rows, g) = c)

\* Some index of the receivers r holds a forbidden recipient.
SelfAssigned(emps, r) == \E i \in 1..Len(emps) : r[i] = emps[i].Employee_EmailID

PriorRepeated(emps, rows, r) ==
    \E i \in 1..Len(emps) :
        /\ emps[i].Employee_EmailID \in PriorGivers(rows)
        /\ r[i] = PriorRecipient(rows, emps[i].Employee_EmailID)

\* No assignment of the participants satisfies both constraints.
Unsatisfiable(emps, rows) ==
    \A r \in Shuffles(Names(emps)) : SelfAssigned(emps, r) \/ PriorRepeated(emps, rows, r)

\* data is a complete valid assignment of the employees: one record per
\* employee in order, every employee once a recipient, the names those of the
\* emails, nobody their own recipient or given last year's.
CompleteValid(emps, rows, data) ==
    /\ Len(data) = Len(emps)
    /\ \A i \in 1..Len(emps) :
          /\ data[i].Employee_EmailID = emps[i].Employee_EmailID
          /\ data[i].Employee_Name = emps[i].Employee_Name
          /\ Cardinality({k \in 1..Len(data) :
                 data[k].Secret_Child_EmailID = emps[i].Employee_EmailID}) = 1
          /\ \E k \in 1..Len(emps) :
                /\ emps[k].Employee_EmailID = data[i].Secret_Child_EmailID
                /\ emps[k].Employee_Name = data[i].Secret_Child_Name
          /\ ~Forbidden(rows, emps[i].Employee_EmailID, data[i].Secret_Child_EmailID)

\* The progress of a call of generate_assignments: every step raises it.
Measure ==
    4 * attempt + (CASE pc = "call" -> 0
                     [] pc = "shuffled" -> 1
                     [] pc = "selfrepaired" -> 2
                     [] pc = "priorrepaired" -> 3
                     [] pc = "loop" -> 4
                     [] OTHER -> 5)

Over == pc \in {"returned", "raised"}

\* Two rows of the file share an email; the first row that repeats an email.
SharedEmail(rows) ==
    \E i, j \in 1..Len(rows) :
        i < j /\ rows[i].Employee_EmailID # Blank
              /\ rows[i].Employee_EmailID = rows[j].Employee_EmailID

FirstRepeat(rows) ==
    CHOOSE j \in 1..Len(rows) :
        /\ \E i \in 1..(j - 1) : rows[i].Employee_EmailID # Blank
                                 /\ rows[i].Employee_EmailID = rows[j].Employee_EmailID
        /\ \A m \in 1..(j - 1) : \A i \in 1..(m - 1) :
              rows[i].Employee_EmailID = Blank
              \/ rows[i].Employee_EmailID # rows[m].Employee_EmailID

ValidationKinds ==
    {"empty_file", "too_few_rows", "name_missing", "email_missing", "duplicate_email"}

(***************************************************************************)
(* generate_assignments called on tables that no assignment satisfies.     *)
(***************************************************************************)

ExhaustEmployeeLists == {[i \in 1..n |-> EmployeeRow(i)] : n \in 2..MaxExhaustN}

ExhaustPriorLists ==
    {lead \o RowsOf(f, 1, MaxExhaustN) :
        lead \in LeadingRows, f \in [1..MaxExhaustN -> {Blank} \cup 1..MaxExhaustN]}

\* The tables of at least 2 employees, with last year's rows, that no
\* assignment satisfies.
UnsatisfiableTables ==
    {t \in ExhaustEmployeeLists \X ExhaustPriorLists : Unsatisfiable(t[1], t[2])}

InitExhaust ==
    /\ \E t \in UnsatisfiableTables :
          /\ employees = t[1]
          /\ last_year_assignments = t[2]
    /\ result = <<>>
    /\ pc = "call"
    /\ attempt = 0
    /\ receivers = <<>>
    /\ valid_assignment = TRUE
    /\ names = <<>>
    /\ last_year = <<>>
    /\ error = NoError
    /\ saved = <<>>
    /\ employee_file = Unset
    /\ previous_file = Unset

SpecExhaust == InitExhaust /\ [][Next]_vars

(***************************************************************************)
(* The properties.                                                         *)
(***************************************************************************)

\* C1: when generate_assignments returns, result has one record per employee,
\* record i has the giver names[i], and every participant's email is the
\* Secret_Child_EmailID of exactly one record.
C1_Bijection ==
    pc = "returned" =>
        /\ Len(result) = Len(employees)
        /\ \A i \in 1..Len(employees) :
              /\ result[i].Employee_EmailID = employees[i].Employee_EmailID
              /\ Cardinality({k \in 1..Len(result) :
                     result[k].Secret_Child_EmailID = employees[i].Employee_EmailID}) = 1

C1_Witness == pc = "returned" /\ Len(result) = 3 /\ attempt > 1

\* C2: when generate_assignments returns, no record's Secret_Child_EmailID is
\* its own giver names[i].
C2_NoSelfAssignment ==
    pc = "returned" =>
        \A i \in 1..Len(employees) :
            i \in DOMAIN result
            /\ result[i].Secret_Child_EmailID # employees[i].Employee_EmailID

C2_Witness == pc = "returned" /\ Len(result) = 2

\* C3: when generate_assignments returns, no giver of the prior map built from
\* last_year_assignments has last year's recipient again.
C3_NoPriorRepeat ==
    pc = "returned" =>
        \A i \in 1..Len(employees) :
            (i \in DOMAIN result /\ employees[i].Employee_EmailID
                                      \in PriorGivers(last_year_assignments))
            => result[i].Secret_Child_EmailID
                  # PriorRecipient(last_year_assignments, employees[i].Employee_EmailID)

\* Returned with every participant a giver of the prior map, one of them by a
\* row that replaced an earlier row.
C3_Witness ==
    /\ pc = "returned"
    /\ Len(employees) = 3
    /\ \A i \in 1..3 : employees[i].Employee_EmailID \in PriorGivers(last_year_assignments)
    /\ \E k \in CountingRows(last_year_assignments) :
          /\ last_year_assignments[k].Employee_EmailID = 1
          /\ last_year_assignments[k].Secret_Child_EmailID
                # PriorRecipient(last_year_assignments, 1)

\* C4: with an empty prior map and at least 2 employees, generate_assignments
\* never raises and never comes back to the loop for a second attempt: whatever
\* the shuffle, the first attempt returns.
C4_EmptyPriorSucceeds ==
    (Len(employees) >= 2 /\ PriorGivers(last_year_assignments) = {}) =>
        /\ pc # "raised"
        /\ pc = "loop" => attempt = 0
        /\ pc # "returned" => ENABLED Next

\* Returned, with no prior map, at the first attempt.
C4_Witness ==
    /\ pc = "returned"
    /\ PriorGivers(last_year_assignments) = {}
    /\ Len(employees) = 3
    /\ attempt = 1

\* C5: on at least 2 employees whose constraints no assignment satisfies, a
\* call of generate_assignments ends (every step takes it further, none goes
\* beyond max_attempts shuffles, and it stops only when over), it never
\* returns, and it raises the 'no valid assignment' error with exactly
\* max_attempts shuffles drawn.
C5_Exhaustion ==
    /\ [](/\ Measure <= 4 * MaxAttempts + 5
          /\ pc # "returned"
          /\ pc = "raised" => (error = Raise("exhausted", 0) /\ attempt = MaxAttempts)
          /\ ~Over => ENABLED Next)
    /\ [][Measure' > Measure]_vars

\* Raised on 2 employees each of whom had the other last year.
C5_Witness ==
    /\ pc = "raised"
    /\ Len(employees) = 2
    /\ PriorGivers(last_year_assignments) = {1, 2}
    /\ attempt = MaxAttempts

\* C6: with fewer than 2 employees generate_assignments raises the 'too few
\* participants' error with no shuffle drawn, self.result as it was.
C6_TooFew ==
    (Len(employees) < 2 /\ pc # "call") =>
        /\ pc = "raised"
        /\ error = Raise("too_few", 0)
        /\ attempt = 0
        /\ receivers = <<>>
        /\ result = <<>>

C6_Witness == pc = "raised" /\ Len(employees) = 1 /\ error.kind = "too_few"

\* C7: a run calls write_csv at most once; when it does, the employee file and
\* the last year's file, if one was named, were loaded and generate_assignments
\* returned, and the data is a complete valid assignment of the employees
\* loaded; a run that an earlier step's exception ended called it never.
C7_SaveOnlyValid ==
    /\ Len(saved) <= 1
    /\ saved # <<>> =>
          /\ employee_file.status = "ok"
          /\ employees = employee_file.rows
          /\ previous_file.status \in {"none", "ok"}
          /\ last_year_assignments = previous_file.rows
          /\ saved[1] = result
          /\ CompleteValid(employees, last_year_assignments, saved[1])
          /\ error.kind \in {"none", "write_failed"}
    /\ error.kind \notin {"none", "write_failed"} => (saved = <<>> /\ pc = "run_ended")

\* Saved, with a last year's file that constrains a participant.
C7_Witness ==
    /\ pc = "run_saved"
    /\ Len(saved) = 1
    /\ previous_file.status = "ok"
    /\ \E i \in 1..Len(employees) :
          employees[i].Employee_EmailID \in PriorGivers(last_year_assignments)

\* C8 as stated: an employee file in which two rows share an email fails with
\* the duplicate-email error at the row number of the later of two such rows,
\* self.employees not replaced.
C8_AsStated ==
    (pc # "run" /\ employee_file.status = "ok" /\ SharedEmail(employee_file.rows)) =>
        /\ error.kind = "duplicate_email"
        /\ \E i, j \in 1..Len(employee_file.rows) :
              /\ i < j
              /\ employee_file.rows[i].Employee_EmailID
                    = employee_file.rows[j].Employee_EmailID
              /\ error.row = j
        /\ employees = <<>>

\* C8: an employee file in which two rows share an email fails with a
\* validation error and self.employees is not replaced; when the file has more
\* than 2 rows and no row up to the first one that repeats an email has a blank
\* name or email, the error is the duplicate-email error at that row's number.
C8_DuplicateRejected ==
    (pc # "run" /\ employee_file.status = "ok" /\ SharedEmail(employee_file.rows)) =>
        /\ pc = "run_ended"
        /\ employees = <<>>
        /\ error.kind \in ValidationKinds
        /\ (/\ Len(employee_file.rows) > 2
            /\ \A k \in 1..FirstRepeat(employee_file.rows) :
                  /\ employee_file.rows[k].Employee_Name # Blank
                  /\ employee_file.rows[k].Employee_EmailID # Blank)
           => error = Raise("duplicate_email", FirstRepeat(employee_file.rows))

\* Rows 2 and 4 share an email, and the error names row 4.
C8_Witness ==
    /\ pc = "run_ended"
    /\ error = Raise("duplicate_email", 4)
    /\ employee_file.rows[2].Employee_EmailID = employee_file.rows[4].Employee_EmailID

\* C9 as stated: there are employees, last year's rows and a shuffle with
\* which the attempt goes through the prior-repeat repair with
\* valid_assignment true and leaves receivers that fail the final check.
C9_AsStated ==
    pc = "loop" =>
        \E emps \in AttemptEmployeeLists, rows \in AttemptPriorLists :
            \E s \in Shuffles(Names(emps)) :
                LET p == PriorRepairPass(Names(emps), BuildLastYear(rows),
                                         SelfRepairPass(Names(emps), s))
                IN  /\ p.valid_assignment
                    /\ \/ SelfAssigned(emps, p.receivers)
                       \/ PriorRepeated(emps, rows, p.receivers)

\* C9: an attempt that goes through the prior-repeat repair with
\* valid_assignment true leaves receivers with no self-assignment and no prior
\* repeat: the final check never discards it.
C9_VerifiedInvalidUnreachable ==
    (pc = "priorrepaired" /\ valid_assignment) =>
        /\ ~SelfAssigned(employees, receivers)
        /\ ~PriorRepeated(employees, last_year_assignments, receivers)

\* The repair was not given up, and it changed the receivers of some shuffle
\* that held a prior repeat after step 1.
C9_Witness ==
    /\ pc = "priorrepaired"
    /\ valid_assignment
    /\ \E s \in Shuffles(names) :
          LET r == SelfRepairPass(names, s)
          IN  /\ PriorRepeated(employees, last_year_assignments, r)
              /\ PriorRepairPass(names, last_year, r).receivers = receivers
              /\ r # receivers

\* C10 as stated: there are employees and a shuffle with which receivers
\* holds a self-assignment when the self-assignment repair pass ends.
C10_AsStated ==
    pc = "loop" =>
        \E emps \in AttemptEmployeeLists :
            \E s \in Shuffles(Names(emps)) :
                SelfAssigned(emps, SelfRepairPass(Names(emps), s))

\* C10: when the self-assignment repair pass ends, receivers holds no
\* self-assignment, whatever the shuffle was.
C10_SelfRepairComplete ==
    pc = "selfrepaired" => ~SelfAssigned(employees, receivers)

\* The pass is over on a shuffle that left two participants in place.
C10_Witness ==
    /\ pc = "selfrepaired"
    /\ \E s \in Shuffles(names) :
          /\ Cardinality({i \in 1..Len(names) : s[i] = names[i]}) >= 2
          /\ SelfRepairPass(names, s) = receivers

====
